---------------------------- MODULE Spec2Model ----------------------------
(***************************************************************************)
(* A model of better-bus-buffers/sqlize_csv.py: the import of GTFS CSV     *)
(* datasets into one SQLite store.                                         *)
(*                                                                         *)
(* Conventions of the model                                                *)
(*   - a text value is a sequence of one-character strings, so that        *)
(*     strip(), the regular expression of check_time_str, float() and the  *)
(*     "%s:%s" formatting are computed and not assumed;                    *)
(*   - a column name is the sequence of its parts between underscores:     *)
(*     <<"stop","id">> is stop_id, <<"id">> is id, so that                 *)
(*     name.endswith("_id") is Len >= 2 and last part "id";                *)
(*   - a field of a row is a record: Str(s) for text, Num(n, d) for the    *)
(*     number n/d that a conversion produced;                              *)
(*   - a raised Python exception is the exc field of a result record.      *)
(***************************************************************************)
EXTENDS Integers, Sequences, FiniteSets, TLC

VARIABLES
    committed,  \* loader: table name -> rows visible after the last db.commit()
    pending,    \* loader: table name -> rows inserted in the open transaction
    pc,         \* loader: position of the run
    label,      \* loader: handle_agency's label
    csvs,       \* loader: handle_agency's csvs_withPaths still to be handled
    present,    \* loader: the files os.path.exists found
    opened,     \* loader: the files handle_file has opened, in order
    errors,     \* loader: the messages given to arcpy.AddError, in order
    raised,     \* loader: the exception that left handle_agency, or "none"
    lastfile,   \* loader: what the last handle_file call read and did
    rw,         \* row pipeline of one row (labeller, columns_filter)
    mg,         \* two datasets' identifiers side by side
    chk,        \* check_nonoverlapping_dateranges and the store it reads
    tm          \* smarter_convert_times on one row

loaderVars == <<committed, pending, pc, label, csvs, present, opened, errors, raised, lastfile>>

vars == <<committed, pending, pc, label, csvs, present, opened, errors, raised, lastfile, rw, mg, chk, tm>>

Idle == [stage |-> "unused"]

-----------------------------------------------------------------------------
(* Text                                                                    *)

Digits == {"0", "1", "2", "3", "4", "5", "6", "7", "8", "9"}

DigitVal(c) ==
    CASE c = "0" -> 0 [] c = "1" -> 1 [] c = "2" -> 2 [] c = "3" -> 3
      [] c = "4" -> 4 [] c = "5" -> 5 [] c = "6" -> 6 [] c = "7" -> 7
      [] c = "8" -> 8 [] c = "9" -> 9

AllDigits(s) == \A i \in 1..Len(s) : s[i] \in Digits

RECURSIVE IntOfDigits(_)
IntOfDigits(s) ==
    IF s = <<>> THEN 0
    ELSE IntOfDigits(SubSeq(s, 1, Len(s) - 1)) * 10 + DigitVal(s[Len(s)])

RECURSIVE Pow10(_)
Pow10(k) == IF k = 0 THEN 1 ELSE 10 * Pow10(k - 1)

RECURSIVE lstrip(_)
lstrip(s) == IF s # <<>> /\ s[1] = " " THEN lstrip(Tail(s)) ELSE s

RECURSIVE rstrip(_)
rstrip(s) ==
    IF s # <<>> /\ s[Len(s)] = " " THEN rstrip(SubSeq(s, 1, Len(s) - 1)) ELSE s

strip(s) == rstrip(lstrip(s))

Str(s) == [k |-> "str", s |-> s, n |-> 0, d |-> 1]

Num(n, d) == [k |-> "num", s |-> <<>>, n |-> n, d |-> d]

NoMsg == [kind |-> "none", items |-> <<>>]

Ok(row) == [exc |-> "none", msg |-> NoMsg, row |-> row]

Fail(exc, msg) == [exc |-> exc, msg |-> msg, row |-> <<>>]

\* list.index(x): the first position holding x
index(seq, x) == CHOOSE i \in 1..Len(seq) : seq[i] = x /\ \A j \in 1..(i - 1) : seq[j] # x

-----------------------------------------------------------------------------
(* Times                                                                   *)

\* check_time_str with the hour's optional first digit made mandatory
check_time_str_two_hour_digits(s) ==
    LET t == IF s # <<>> /\ s[1] = "-" THEN Tail(s) ELSE s
    IN  /\ Len(t) = 8 /\ t[1] \in Digits /\ t[2] \in Digits
        /\ t[3] = ":" /\ t[4] \in Digits /\ t[5] \in Digits
        /\ t[6] = ":" /\ t[7] \in Digits /\ t[8] \in Digits

\* re.match('^-?\d?\d:\d\d:\d\d$', s)
check_time_str(s) ==
    LET t == IF s # <<>> /\ s[1] = "-" THEN Tail(s) ELSE s
        tail6(u) == /\ u[1] = ":" /\ u[2] \in Digits /\ u[3] \in Digits
                    /\ u[4] = ":" /\ u[5] \in Digits /\ u[6] \in Digits
    IN  \/ Len(t) = 8 /\ t[1] \in Digits /\ t[2] \in Digits /\ tail6(SubSeq(t, 3, 8))
        \/ Len(t) = 7 /\ t[1] \in Digits /\ tail6(SubSeq(t, 2, 7))

\* hms.str2sec of a string check_time_str accepted
str2sec(s) ==
    LET neg == s[1] = "-"
        t == IF neg THEN Tail(s) ELSE s
        hl == Len(t) - 6
        h == IntOfDigits(SubSeq(t, 1, hl))
        m == IntOfDigits(SubSeq(t, hl + 2, hl + 3))
        sec == IntOfDigits(SubSeq(t, hl + 5, hl + 6))
        v == h * 3600 + m * 60 + sec
    IN  IF neg THEN 0 - v ELSE v

\* whether float(s) returns: an optional sign, digits with at most one point and
\* at least one digit (the exponent, inf and nan forms need letters the model's
\* alphabet does not give to a numeric field)
float_ok(s) ==
    LET b == IF s # <<>> /\ s[1] \in {"-", "+"} THEN Tail(s) ELSE s
    IN  /\ \A i \in 1..Len(b) : b[i] \in Digits \cup {"."}
        /\ Cardinality({i \in 1..Len(b) : b[i] = "."}) <= 1
        /\ \E i \in 1..Len(b) : b[i] \in Digits

\* float(s) for a string float_ok accepts
float(s) ==
    LET neg == s[1] = "-"
        b == IF s[1] \in {"-", "+"} THEN Tail(s) ELSE s
        ds == SelectSeq(b, LAMBDA c : c \in Digits)
        dot == {i \in 1..Len(b) : b[i] = "."}
        frac == IF dot = {} THEN 0 ELSE Len(b) - (CHOOSE i \in dot : TRUE)
        v == IntOfDigits(ds)
    IN  Num(IF neg THEN 0 - v ELSE v, Pow10(frac))

TimeMsg(kind, col) == [kind |-> kind, items |-> <<col>>]

\* convert_time_columns(row) for the time columns idxs not yet converted
RECURSIVE convert_time_from(_, _, _, _)
convert_time_from(row, out_row, idxs, col_names) ==
    IF idxs = <<>> THEN Ok(out_row)
    ELSE LET idx == Head(idxs) IN
         IF idx > Len(row) THEN Fail("IndexError", NoMsg)
         ELSE LET field == strip(row[idx].s) IN
              IF check_time_str(field)
              THEN convert_time_from(row, [out_row EXCEPT ![idx] = Num(str2sec(field), 1)],
                                     Tail(idxs), col_names)
              ELSE IF field = <<>>
              THEN Fail("CustomError", TimeMsg("empty_time", col_names[idx]))
              ELSE IF float_ok(field)
              THEN convert_time_from(row, [out_row EXCEPT ![idx] = float(field)],
                                     Tail(idxs), col_names)
              ELSE Fail("CustomError", TimeMsg("invalid_value", col_names[idx]))

convert_time_columns(row, col_names, time_columns) ==
    LET time_column_idxs == [i \in 1..Len(time_columns) |-> index(col_names, time_columns[i])]
    IN  convert_time_from(row, row, time_column_idxs, col_names)

-----------------------------------------------------------------------------
(* The schema                                                              *)

csv_fnames == <<"stops.txt", "calendar.txt", "calendar_dates.txt", "stop_times.txt",
                "trips.txt", "routes.txt", "frequencies.txt">>

Col(name, type, required) == [name |-> name, type |-> type, required |-> required]

\* sql_schema: the columns of each table in the order the source declares them
\* (the order a Python 3.7+ dict iterates in); required is True or the default
sql_schema ==
    [stops |-> <<Col(<<"stop","id">>, "str", "True"), Col(<<"stop","code">>, "str", "NULL"),
                 Col(<<"stop","name">>, "str", "True"), Col(<<"stop","desc">>, "str", "NULL"),
                 Col(<<"stop","lat">>, "float", "True"), Col(<<"stop","lon">>, "float", "True"),
                 Col(<<"zone","id">>, "str", "NULL"), Col(<<"stop","url">>, "str", "NULL"),
                 Col(<<"location","type">>, "int", "NULL"),
                 Col(<<"parent","station">>, "str", "NULL")>>,
     calendar |-> <<Col(<<"service","id">>, "str", "True"), Col(<<"monday">>, "int", "True"),
                    Col(<<"tuesday">>, "int", "True"), Col(<<"wednesday">>, "int", "True"),
                    Col(<<"thursday">>, "int", "True"), Col(<<"friday">>, "int", "True"),
                    Col(<<"saturday">>, "int", "True"), Col(<<"sunday">>, "int", "True"),
                    Col(<<"start","date">>, "str", "True"), Col(<<"end","date">>, "str", "True")>>,
     calendar_dates |-> <<Col(<<"service","id">>, "str", "True"), Col(<<"date">>, "str", "True"),
                          Col(<<"exception","type">>, "int", "True")>>,
     stop_times |-> <<Col(<<"trip","id">>, "str", "True"),
                      Col(<<"arrival","time">>, "float", "True"),
                      Col(<<"departure","time">>, "float", "True"),
                      Col(<<"stop","id">>, "str", "True"),
                      Col(<<"stop","sequence">>, "int", "True"),
                      Col(<<"stop","headsign">>, "str", "NULL"),
                      Col(<<"pickup","type">>, "int", "0"),
                      Col(<<"drop","off","type">>, "int", "0"),
                      Col(<<"shape","dist","traveled">>, "float", "NULL")>>,
     trips |-> <<Col(<<"route","id">>, "str", "True"), Col(<<"service","id">>, "str", "True"),
                 Col(<<"trip","id">>, "str", "True"), Col(<<"trip","headsign">>, "str", "NULL"),
                 Col(<<"trip","short","name">>, "str", "NULL"),
                 Col(<<"direction","id">>, "int", "NULL"), Col(<<"block","id">>, "str", "NULL"),
                 Col(<<"shape","id">>, "str", "NULL")>>,
     routes |-> <<Col(<<"route","id">>, "str", "True"), Col(<<"agency","id">>, "str", "NULL"),
                  Col(<<"route","short","name">>, "str", "NULL"),
                  Col(<<"route","long","name">>, "str", "NULL"),
                  Col(<<"route","desc">>, "str", "NULL"), Col(<<"route","type">>, "int", "True"),
                  Col(<<"route","url">>, "str", "NULL"), Col(<<"route","color">>, "str", "NULL"),
                  Col(<<"route","text","color">>, "str", "NULL")>>,
     frequencies |-> <<Col(<<"trip","id">>, "str", "True"),
                       Col(<<"start","time">>, "float", "True"),
                       Col(<<"end","time">>, "float", "True"),
                       Col(<<"headway","secs">>, "int", "True")>>]

Tables == DOMAIN sql_schema

\* the keys of sql_schema[tablename]
tbl(tablename) == {sql_schema[tablename][i].name : i \in 1..Len(sql_schema[tablename])}

\* fname[:-4] of a canonical file name
tablename_of(fname) ==
    CASE fname = "stops.txt" -> "stops" [] fname = "calendar.txt" -> "calendar"
      [] fname = "calendar_dates.txt" -> "calendar_dates"
      [] fname = "stop_times.txt" -> "stop_times" [] fname = "trips.txt" -> "trips"
      [] fname = "routes.txt" -> "routes" [] fname = "frequencies.txt" -> "frequencies"

-----------------------------------------------------------------------------
(* The identifier namespacer                                               *)

Letters ==
    {"a", "b", "c", "d", "e", "f", "g", "h", "i", "j", "k", "l", "m",
     "n", "o", "p", "q", "r", "s", "t", "u", "v", "w", "x", "y", "z",
     "A", "B", "C", "D", "E", "F", "G", "H", "I", "J", "K", "L", "M",
     "N", "O", "P", "Q", "R", "S", "T", "U", "V", "W", "X", "Y", "Z"}

\* re.sub("[^A-Za-z0-9]", "", service)
sanitize(service) == SelectSeq(service, LAMBDA c : c \in Letters \cup Digits)

\* is_id_column without the exception for direction_id
is_id_column_any_id(field) == Len(field) >= 2 /\ field[Len(field)] = "id"

\* field.endswith("_id") and field != "direction_id"
is_id_column(field) ==
    /\ Len(field) >= 2
    /\ field[Len(field)] = "id"
    /\ field # <<"direction", "id">>

\* the set s of make_add_agency_labels
label_idxs(columns) == {idx \in 1..Len(columns) : is_id_column(columns[idx])}

\* add_labels that joins the label and the value without the colon
add_labels_no_colon(service, columns, row) ==
    LET s == label_idxs(columns) IN
    IF \E idx \in s : idx > Len(row) THEN Fail("IndexError", NoMsg)
    ELSE Ok([idx \in 1..Len(row) |->
                IF idx \in s
                THEN Str(sanitize(service) \o strip(row[idx].s))
                ELSE row[idx]])

\* add_labels(row) of make_add_agency_labels(service, columns)
add_labels(service, columns, row) ==
    LET s == label_idxs(columns) IN
    IF \E idx \in s : idx > Len(row) THEN Fail("IndexError", NoMsg)
    ELSE Ok([idx \in 1..Len(row) |->
                IF idx \in s
                THEN Str(sanitize(service) \o <<":">> \o strip(row[idx].s))
                ELSE row[idx]])

-----------------------------------------------------------------------------
(* The column projector                                                    *)

\* list.pop(idx)
pop(seq, idx) == SubSeq(seq, 1, idx - 1) \o SubSeq(seq, idx + 1, Len(seq))

\* the list cols of make_remove_extra_fields after cols.reverse()
RECURSIVE extra_cols(_, _, _)
extra_cols(tablename, columns, idx) ==
    IF idx = 0 THEN <<>>
    ELSE IF columns[idx] \notin tbl(tablename)
         THEN <<idx>> \o extra_cols(tablename, columns, idx - 1)
         ELSE extra_cols(tablename, columns, idx - 1)

RECURSIVE pop_all(_, _)
pop_all(out_row, cols) ==
    IF cols = <<>> THEN out_row ELSE pop_all(pop(out_row, Head(cols)), Tail(cols))

\* drop_fields without the check of the row's length
drop_fields_unchecked(tablename, columns, in_row) ==
    Ok(pop_all(in_row, extra_cols(tablename, columns, Len(columns))))

\* drop_fields(in_row) of make_remove_extra_fields(tablename, columns)
drop_fields(tablename, columns, in_row) ==
    IF Len(in_row) # Len(columns)
    THEN Fail("CustomError", [kind |-> "wrong_width", items |-> <<tablename>>])
    ELSE Ok(pop_all(in_row, extra_cols(tablename, columns, Len(columns))))

-----------------------------------------------------------------------------
(* The table-level and row-level validators                                *)

\* the required columns the header lacks, in the order the loop meets them
RECURSIVE missing_required(_, _, _)
missing_required(tablename, columns, i) ==
    IF i > Len(sql_schema[tablename]) THEN <<>>
    ELSE LET col == sql_schema[tablename][i] IN
         (IF col.required = "True" /\ \A j \in 1..Len(columns) : columns[j] # col.name
          THEN <<col.name>> ELSE <<>>)
         \o missing_required(tablename, columns, i + 1)

\* check_for_required_fields: raises at the first required column that is absent
check_for_required_fields(tablename, columns) ==
    LET miss == missing_required(tablename, columns, 1) IN
    IF miss = <<>> THEN Ok(<<>>)
    ELSE Fail("CustomError", [kind |-> "missing_field", items |-> <<Head(miss)>>])

is_leap(y) == (y % 4 = 0 /\ y % 100 # 0) \/ y % 400 = 0

days_in_month(y, m) ==
    IF m \in {4, 6, 9, 11} THEN 30
    ELSE IF m = 2 THEN (IF is_leap(y) THEN 29 ELSE 28) ELSE 31

\* datetime.datetime.strptime(date, '%Y%m%d') returns: the regular expression
\* (\d\d\d\d)(1[0-2]|0[1-9]|[1-9])(3[01]|[12]\d|0[1-9]|[1-9]| [1-9]) matches a
\* prefix, by the first alternatives that fit, the match is the whole string,
\* and the year, month and day make a date
strptime_ok(date) ==
    LET at(i) == IF i <= Len(date) THEN date[i] ELSE "none"
        nz == Digits \ {"0"}
        m2(i) == \/ at(i) = "1" /\ at(i + 1) \in {"0", "1", "2"}
                 \/ at(i) = "0" /\ at(i + 1) \in nz
        m1(i) == at(i) \in nz
        d2(i) == \/ at(i) = "3" /\ at(i + 1) \in {"0", "1"}
                 \/ at(i) \in {"1", "2"} /\ at(i + 1) \in Digits
                 \/ at(i) = "0" /\ at(i + 1) \in nz
        d1(i) == at(i) \in nz
        ds(i) == at(i) = " " /\ at(i + 1) \in nz
        dlen(i) == IF d2(i) THEN 2 ELSE IF d1(i) THEN 1 ELSE IF ds(i) THEN 2 ELSE 0
        mlen == IF m2(5) /\ dlen(7) > 0 THEN 2
                ELSE IF m1(5) /\ dlen(6) > 0 THEN 1 ELSE 0
        dl == dlen(5 + mlen)
        y == IntOfDigits(SubSeq(date, 1, 4))
        m == IntOfDigits(SubSeq(date, 5, 4 + mlen))
        dtxt == SubSeq(date, 5 + mlen, 4 + mlen + dl)
        d == IntOfDigits(IF dtxt[1] = " " THEN Tail(dtxt) ELSE dtxt)
    IN  /\ Len(date) >= 4
        /\ \A i \in 1..4 : date[i] \in Digits
        /\ mlen > 0
        /\ 4 + mlen + dl = Len(date)
        /\ y >= 1
        /\ d <= days_in_month(y, m)

\* check_date_cols(row) of check_date_fields
RECURSIVE check_date_from(_, _, _)
check_date_from(row, idxs, col_names) ==
    IF idxs = <<>> THEN Ok(row)
    ELSE LET idx == Head(idxs) IN
         IF idx > Len(row) THEN Fail("IndexError", NoMsg)
         ELSE IF strptime_ok(row[idx].s)
         THEN check_date_from(row, Tail(idxs), col_names)
         ELSE Fail("CustomError", [kind |-> "invalid_date", items |-> <<col_names[idx]>>])

check_date_cols(row, col_names, tablename) ==
    LET date_cols == IF tablename = "calendar"
                     THEN << <<"start","date">>, <<"end","date">> >>
                     ELSE << <<"date">> >>
        date_column_idxs == [i \in 1..Len(date_cols) |-> index(col_names, date_cols[i])]
    IN  check_date_from(row, date_column_idxs, col_names)

\* check_latlon_cols(row) of check_latlon_fields
check_latlon_cols(row, col_names) ==
    LET i_id == index(col_names, <<"stop","id">>)
        i_lat == index(col_names, <<"stop","lat">>)
        i_lon == index(col_names, <<"stop","lon">>)
        bad(what) == Fail("CustomError", [kind |-> what, items |-> <<col_names[i_id]>>])
    IN  IF i_id > Len(row) \/ i_lat > Len(row) \/ i_lon > Len(row)
        THEN Fail("IndexError", NoMsg)
        ELSE IF ~float_ok(row[i_lat].s) THEN bad("lat_not_number")
        ELSE IF ~float_ok(row[i_lon].s) THEN bad("lon_not_number")
        ELSE LET lat == float(row[i_lat].s)
                 lon == float(row[i_lon].s)
             IN  IF ~(0 - 90 * lat.d <= lat.n /\ lat.n <= 90 * lat.d) THEN bad("lat_range")
                 ELSE IF ~(0 - 180 * lon.d <= lon.n /\ lon.n <= 180 * lon.d)
                 THEN bad("lon_range")
                 ELSE Ok(row)

-----------------------------------------------------------------------------
(* Inputs of the row-level specifications                                  *)

MaxLen == 2

Alphabet == {"0", "1", ":", "-", ".", "x", " "}

ShortTexts == UNION {[1..k -> Alphabet] : k \in 0..MaxLen}

ClockTexts ==
    {sg \o h \o <<":">> \o m \o <<":">> \o s :
        sg \in {<<>>, <<"-">>},
        h \in {<<"8">>, <<"0","8">>, <<"2","5">>, <<"1","2","3">>, <<>>},
        m \in {<<"0","5">>, <<"0","0">>, <<"5">>, <<"9","9">>},
        s \in {<<"0","0">>, <<"0">>, <<"x","0">>}}

NumericTexts ==
    {<<"1","0","0">>, <<"1","0","0",".","5">>, <<"-","3">>, <<"+","7">>, <<"1",".">>,
     <<".","5">>, <<"1",".","2",".","3">>, <<"2","9","1","0","0">>, <<"-">>, <<".">>,
     <<" ","1","0","0"," ">>, <<" ","0","8",":","0","5",":","0","0">>}

TimeTexts == ShortTexts \cup ClockTexts \cup NumericTexts

FewTimeTexts == {<<"0","8",":","0","5",":","0","0">>, <<"1","0","0">>, <<>>}

\* the headers of the two tables with time columns: the required columns in the
\* schema's order, and a header with an extra column first and the times swapped
TimeHeaders ==
    [stop_times |->
        { << <<"trip","id">>, <<"arrival","time">>, <<"departure","time">>,
             <<"stop","id">>, <<"stop","sequence">> >>,
          << <<"timepoint">>, <<"departure","time">>, <<"arrival","time">>,
             <<"trip","id">>, <<"stop","id">>, <<"stop","sequence">> >> },
     frequencies |->
        { << <<"trip","id">>, <<"start","time">>, <<"end","time">>, <<"headway","secs">> >>,
          << <<"exact","times">>, <<"end","time">>, <<"start","time">>,
             <<"trip","id">>, <<"headway","secs">> >> }]

\* the time_columns argument handle_file passes for each table
time_columns_of(tablename) ==
    IF tablename = "stop_times"
    THEN << <<"arrival","time">>, <<"departure","time">> >>
    ELSE << <<"start","time">>, <<"end","time">> >>

\* a row of the header whose two time columns hold a and b and whose other
\* columns hold a one-character value
TimeRow(tablename, columns, a, b) ==
    LET tc == time_columns_of(tablename) IN
    [i \in 1..Len(columns) |->
        IF columns[i] = tc[1] THEN Str(a)
        ELSE IF columns[i] = tc[2] THEN Str(b) ELSE Str(<<"1">>)]

\* the generator of handle_file that strips every field of a row the csv
\* reader gives
reader_strip(r) == [i \in 1..Len(r) |-> Str(strip(r[i].s))]

LoaderIdle ==
    /\ committed = [t \in Tables |-> <<>>]
    /\ pending = [t \in Tables |-> <<>>]
    /\ pc = "unused"
    /\ label = <<>>
    /\ csvs = <<>>
    /\ present = {}
    /\ opened = <<>>
    /\ errors = <<>>
    /\ raised = "none"
    /\ lastfile = Idle

-----------------------------------------------------------------------------
(* SpecTime: smarter_convert_times on one row of stop_times or frequencies *)

InitTime ==
    /\ LoaderIdle
    /\ rw = Idle /\ mg = Idle /\ chk = Idle
    /\ \E tablename \in {"stop_times", "frequencies"} :
       \E columns \in TimeHeaders[tablename] :
       \E a \in TimeTexts, b \in TimeTexts :
          /\ a \in FewTimeTexts \/ b \in FewTimeTexts
          /\ tm = [stage |-> "raw", tablename |-> tablename, columns |-> columns,
                   raw |-> TimeRow(tablename, columns, a, b),
                   row |-> <<>>, res |-> Ok(<<>>)]

\* the reader hands the row on, every field stripped
ReadTimeRow ==
    /\ tm.stage = "raw"
    /\ tm' = [tm EXCEPT !.stage = "read", !.row = reader_strip(tm.raw)]
    /\ UNCHANGED <<loaderVars, rw, mg, chk>>

\* convert_time_columns is applied to the row
ConvertTimeRow ==
    /\ tm.stage = "read"
    /\ tm' = [tm EXCEPT !.stage = "done",
                        !.res = convert_time_columns(tm.row, tm.columns,
                                                     time_columns_of(tm.tablename))]
    /\ UNCHANGED <<loaderVars, rw, mg, chk>>

NextTime == ReadTimeRow \/ ConvertTimeRow

SpecTime == InitTime /\ [][NextTime]_vars

\* the clock shape of the claim: an optional minus sign, one or two hour digits,
\* two minute digits and two second digits, separated by colons
IsClockText(s) ==
    \E sg \in {0, 1}, hl \in {1, 2} :
        /\ Len(s) = sg + hl + 6
        /\ sg = 1 => s[1] = "-"
        /\ \A i \in (sg + 1)..(sg + hl) : s[i] \in Digits
        /\ s[sg + hl + 1] = ":" /\ s[sg + hl + 4] = ":"
        /\ \A i \in {sg + hl + 2, sg + hl + 3, sg + hl + 5, sg + hl + 6} : s[i] \in Digits

\* a bare numeric string: an optional sign, then digits with at most one decimal
\* point among them
IsNumericText(s) ==
    LET b == IF s # <<>> /\ s[1] \in {"-", "+"} THEN Tail(s) ELSE s IN
    \E p \in 0..Len(b) :
        /\ \A i \in 1..p : b[i] \in Digits
        /\ p < Len(b) => b[p + 1] = "." /\ \A i \in (p + 2)..Len(b) : b[i] \in Digits
        /\ Len(b) > (IF p < Len(b) THEN 1 ELSE 0)

RECURSIVE Horner(_, _)
Horner(s, acc) == IF s = <<>> THEN acc ELSE Horner(Tail(s), acc * 10 + DigitVal(Head(s)))

\* hours*3600 + minutes*60 + seconds of a clock text without a sign
ClockSeconds(s) ==
    LET hl == Len(s) - 6 IN
    Horner(SubSeq(s, 1, hl), 0) * 3600 + Horner(SubSeq(s, hl + 2, hl + 3), 0) * 60
        + Horner(SubSeq(s, hl + 5, hl + 6), 0)

\* whether the number n/d is the value the numeric text s writes
IsValueOf(n, d, s) ==
    LET neg == s[1] = "-"
        b == IF s[1] \in {"-", "+"} THEN Tail(s) ELSE s
        p == CHOOSE q \in 0..Len(b) :
                 (\A i \in 1..q : b[i] \in Digits) /\ (q = Len(b) \/ b[q + 1] = ".")
        ip == Horner(SubSeq(b, 1, p), 0)
        fp == SubSeq(b, p + 2, Len(b))
        mag == ip * Pow10(Len(fp)) + Horner(fp, 0)
    IN  n * Pow10(Len(fp)) = d * (IF neg THEN 0 - mag ELSE mag)

-----------------------------------------------------------------------------
(* SpecRow: one row of one table through the reader, the labeller and the  *)
(* column filter, as handle_file chains them                               *)

MaxExtra == 1

\* columns a feed may carry that no table declares
ExtraCols == { <<"wheelchair","boarding">>, <<"level","id">> }

\* the dataset labels handle_agency may derive
Services == { <<"c","t","a">>, <<"c","-","t","a"," ","1">> }

OptionalNames(tablename) ==
    {sql_schema[tablename][i].name :
        i \in {j \in 1..Len(sql_schema[tablename]) : sql_schema[tablename][j].required # "True"}}

\* which optional columns a header carries: none, all, or one of them
OptionalChoices(tablename) ==
    {{}, OptionalNames(tablename)} \cup {{c} : c \in OptionalNames(tablename)}

\* the declared columns of a header, in the schema's order: every required
\* column (check_for_required_fields has passed) and the optional ones chosen
BaseHeader(tablename, opt) ==
    LET names == [i \in 1..Len(sql_schema[tablename]) |-> sql_schema[tablename][i] ]
        kept == SelectSeq(names, LAMBDA c : c.required = "True" \/ c.name \in opt)
    IN  [i \in 1..Len(kept) |-> kept[i].name]

InsertAt(seq, pos, x) == SubSeq(seq, 1, pos) \o <<x>> \o SubSeq(seq, pos + 1, Len(seq))

RECURSIVE WithExtras(_, _)
WithExtras(base, k) ==
    IF k = 0 THEN {base}
    ELSE LET prev == WithExtras(base, k - 1) IN
         prev \cup UNION {{InsertAt(h, pos, x) : pos \in 0..Len(h), x \in ExtraCols} : h \in prev}

Headers(tablename) ==
    UNION {WithExtras(BaseHeader(tablename, opt), MaxExtra) : opt \in OptionalChoices(tablename)}

Marks == <<"a", "b", "c", "d", "e", "f", "g", "h", "i", "j", "k", "l", "m", "n", "o">>

is_required(tablename, name) ==
    \E j \in 1..Len(sql_schema[tablename]) :
        sql_schema[tablename][j].name = name /\ sql_schema[tablename][j].required = "True"

\* the raw row of a header: every field carries the mark of its position; an
\* identifier is written plain, padded with blanks, or (when the schema does not
\* require its column) left empty
RawRow(tablename, columns, style) ==
    [i \in 1..Len(columns) |->
        IF Len(columns[i]) >= 2 /\ columns[i][Len(columns[i])] = "id"
        THEN IF style = "empty" /\ ~is_required(tablename, columns[i]) THEN Str(<<>>)
             ELSE IF style = "spaced" THEN Str(<<" ", Marks[i], " ", "7", " ">>)
             ELSE Str(<<Marks[i], "7">>)
        ELSE Str(<<" ", "v", Marks[i]>>)]

\* the row as the file gives it: of the header's width, one field short, or one
\* field long
Resize(row, width) ==
    IF width = "short" THEN SubSeq(row, 1, Len(row) - 1)
    ELSE IF width = "long" THEN Append(row, Str(<<"z">>))
    ELSE row

InitRow ==
    /\ LoaderIdle
    /\ tm = Idle /\ mg = Idle /\ chk = Idle
    /\ \E tablename \in Tables :
       \E columns \in Headers(tablename) :
       \E service \in Services :
       \E sw \in {<<"plain", "ok">>, <<"spaced", "ok">>, <<"empty", "ok">>,
                  <<"plain", "short">>, <<"plain", "long">>} :
          rw = [stage |-> "raw", tablename |-> tablename, columns |-> columns,
                service |-> service,
                raw |-> Resize(RawRow(tablename, columns, sw[1]), sw[2]),
                row |-> <<>>, labelled |-> Ok(<<>>), projected |-> Ok(<<>>),
                outcolumns |-> <<>>]

\* the reader hands the row on, every field stripped
ReadRow ==
    /\ rw.stage = "raw"
    /\ rw' = [rw EXCEPT !.stage = "read", !.row = reader_strip(rw.raw)]
    /\ UNCHANGED <<loaderVars, tm, mg, chk>>

\* labeller(row); an exception ends the pipeline
LabelRow ==
    /\ rw.stage = "read"
    /\ LET res == add_labels(rw.service, rw.columns, rw.row) IN
       rw' = [rw EXCEPT !.stage = IF res.exc = "none" THEN "labelled" ELSE "failed",
                        !.labelled = res]
    /\ UNCHANGED <<loaderVars, tm, mg, chk>>

\* columns_filter(row), and columns_filter(columns) for the insert's column list
ProjectRow ==
    /\ rw.stage = "labelled"
    /\ LET res == drop_fields(rw.tablename, rw.columns, rw.labelled.row) IN
       rw' = [rw EXCEPT !.stage = IF res.exc = "none" THEN "projected" ELSE "failed",
                        !.projected = res,
                        !.outcolumns = drop_fields(rw.tablename, rw.columns, rw.columns).row]
    /\ UNCHANGED <<loaderVars, tm, mg, chk>>

NextRow == ReadRow \/ LabelRow \/ ProjectRow

SpecRow == InitRow /\ [][NextRow]_vars

\* whether the text v is the label lab, a colon and at least one more character:
\* the pattern ^<label>:.+$
MatchesLabelled(v, lab) ==
    /\ Len(v) > Len(lab) + 1
    /\ SubSeq(v, 1, Len(lab)) = lab
    /\ v[Len(lab) + 1] = ":"

\* the label as the claims speak of it: its letters and digits, in order
AlnumOnly(s) == SelectSeq(s, LAMBDA c : c \in Letters \cup Digits)

\* a column the claims call an identifier: its name ends in _id and is not
\* direction_id
IsIdentifierName(name) ==
    /\ Len(name) >= 2
    /\ name[Len(name)] = "id"
    /\ ~(Len(name) = 2 /\ name[1] = "direction")

\* C4 as stated: in every row of the header's width the namespacer gives every
\* identifier column a value matching ^<label>:.+$ and leaves every other column,
\* direction_id included, unchanged.
C4_Original ==
    rw.stage \in {"labelled", "projected"} /\ Len(rw.row) = Len(rw.columns) =>
        \A idx \in 1..Len(rw.row) :
            IF IsIdentifierName(rw.columns[idx])
            THEN MatchesLabelled(rw.labelled.row[idx].s, AlnumOnly(rw.service))
            ELSE rw.labelled.row[idx] = rw.row[idx]

\* C4 amended: the namespacer gives every identifier column the sanitized label,
\* a colon and the trimmed original value, which matches ^<label>:.+$ exactly when
\* the trimmed original value is not empty (an empty identifier becomes
\* "<label>:"), and leaves every other column, direction_id included, unchanged.
C4_Namespaced ==
    rw.stage \in {"labelled", "projected"} =>
        /\ Len(rw.labelled.row) = Len(rw.row)
        /\ \A idx \in 1..Len(rw.row) :
            IF idx <= Len(rw.columns) /\ IsIdentifierName(rw.columns[idx])
            THEN /\ rw.labelled.row[idx].k = "str"
                 /\ rw.labelled.row[idx].s
                        = AlnumOnly(rw.service) \o <<":">> \o strip(rw.raw[idx].s)
                 /\ MatchesLabelled(rw.labelled.row[idx].s, AlnumOnly(rw.service))
                        <=> strip(rw.raw[idx].s) # <<>>
            ELSE rw.labelled.row[idx] = rw.row[idx]

\* C4 witness: a trips row with direction_id and an empty optional identifier
\* has been labelled
C4_Witness ==
    /\ rw.stage = "labelled"
    /\ rw.tablename = "trips"
    /\ Len(rw.row) = Len(rw.columns)
    /\ \E i, j, k \in 1..Len(rw.columns) :
          /\ rw.columns[i] = <<"direction","id">>
          /\ rw.labelled.row[i] = rw.row[i]
          /\ rw.columns[j] = <<"trip","id">>
          /\ rw.labelled.row[j] # rw.row[j]
          /\ IsIdentifierName(rw.columns[k])
          /\ rw.row[k].s = <<>>

\* the positions of the header whose column the table declares
DeclaredPositions(tablename, columns) ==
    {i \in 1..Len(columns) :
        \E j \in 1..Len(sql_schema[tablename]) : sql_schema[tablename][j].name = columns[i]}

\* C5 as stated: every row the column projector emits has as many fields as the
\* schema declares columns for the table, all of them declared columns.
C5_Original ==
    rw.stage = "projected" =>
        /\ Len(rw.projected.row) = Len(sql_schema[rw.tablename])
        /\ \A j \in 1..Len(rw.outcolumns) : rw.outcolumns[j] \in tbl(rw.tablename)

\* C5 amended: every row the column projector emits has exactly as many fields
\* as the file's header has columns declared for the table, none of the other
\* columns, in the header's order; that is the schema's column count only when
\* the header names every declared column, and fewer when an optional column is
\* absent from the file.
C5_Projected ==
    rw.stage = "projected" =>
        LET decl == DeclaredPositions(rw.tablename, rw.columns)
            nth(j) == CHOOSE i \in decl : Cardinality({h \in decl : h < i}) = j - 1
        IN  /\ Len(rw.projected.row) = Cardinality(decl)
            /\ Len(rw.outcolumns) = Cardinality(decl)
            /\ \A j \in 1..Cardinality(decl) :
                  /\ rw.outcolumns[j] = rw.columns[nth(j)]
                  /\ rw.projected.row[j] = rw.labelled.row[nth(j)]
            /\ Len(rw.projected.row) <= Len(sql_schema[rw.tablename])
            /\ Len(rw.projected.row) = Len(sql_schema[rw.tablename])
                  <=> \A c \in tbl(rw.tablename) : \E i \in decl : rw.columns[i] = c

\* C5 witness: a row of a header with an extra column and without some optional
\* column was projected
C5_Witness ==
    /\ rw.stage = "projected"
    /\ \E i \in 1..Len(rw.columns) : rw.columns[i] \in ExtraCols
    /\ Len(rw.projected.row) < Len(sql_schema[rw.tablename])
    /\ Len(rw.projected.row) < Len(rw.row)

-----------------------------------------------------------------------------
(* SpecMerge: the identifiers two datasets write into one store            *)

\* os.path.normpath for the paths of the model: empty segments (a trailing or a
\* doubled separator) and "." segments are dropped
normpath(gtfs_dir) == SelectSeq(gtfs_dir, LAMBDA seg : seg # <<>> /\ seg # <<".">>)

\* os.path.basename(os.path.normpath(gtfs_dir))
dataset_label(gtfs_dir) ==
    LET n == normpath(gtfs_dir) IN IF n = <<>> THEN <<>> ELSE n[Len(n)]

GtfsDirs ==
    { << <<"g">>, <<"c","t","a">> >>,
      << <<"g">>, <<"c","t","a">>, <<>> >>,
      << <<"h">>, <<"c","t","a">> >>,
      << <<"g">>, <<"c","-","t","a">> >>,
      << <<"g">>, <<"c","t">> >>,
      << <<"g">>, <<"m","e","t","r","a">> >>,
      << <<"g">>, <<"c","t","a">>, <<"d","a","t","a">> >>,
      << <<"g">>, <<"m","e","t","r","a">>, <<"d","a","t","a">> >> }

IdTexts == { <<"1">>, <<"a",":","1">>, <<"a","1">>, <<>> }

\* a routes.txt header and a row of it whose route_id is id
MergeColumns == << <<"route","id">>, <<"route","type">> >>

MergeRow(id) == << Str(id), Str(<<"3">>) >>

InitMerge ==
    /\ LoaderIdle
    /\ tm = Idle /\ rw = Idle /\ chk = Idle
    /\ \E dirA \in GtfsDirs, dirB \in GtfsDirs, idA \in IdTexts, idB \in IdTexts :
          mg = [stage |-> "start", dirA |-> dirA, dirB |-> dirB,
                rawA |-> MergeRow(idA), rawB |-> MergeRow(idB),
                outA |-> <<>>, outB |-> <<>>]

\* handle_agency(dirA) labels the first dataset's row
LabelFirst ==
    /\ mg.stage = "start"
    /\ mg' = [mg EXCEPT !.stage = "first",
                        !.outA = add_labels(dataset_label(mg.dirA), MergeColumns, mg.rawA).row]
    /\ UNCHANGED <<loaderVars, tm, rw, chk>>

\* handle_agency(dirB) labels the second dataset's row
LabelSecond ==
    /\ mg.stage = "first"
    /\ mg' = [mg EXCEPT !.stage = "merged",
                        !.outB = add_labels(dataset_label(mg.dirB), MergeColumns, mg.rawB).row]
    /\ UNCHANGED <<loaderVars, tm, rw, chk>>

NextMerge == LabelFirst \/ LabelSecond

SpecMerge == InitMerge /\ [][NextMerge]_vars

\* the last segment of a directory's path, a trailing separator set aside
LastSegment(dir) ==
    LET n == SelectSeq(dir, LAMBDA seg : seg # <<>>) IN n[Len(n)]

\* C3 as stated: two datasets whose directories have different last path
\* segments never write the same namespaced identifier.
C3_Original ==
    mg.stage = "merged" /\ LastSegment(mg.dirA) # LastSegment(mg.dirB) =>
        mg.outA[1].s # mg.outB[1].s

\* C3 amended: two datasets whose labels (the last path segments, stripped of
\* every character outside A-Z, a-z, 0-9) differ never write the same namespaced
\* identifier, so equal raw identifiers stay distinct after the merge; two last
\* segments that differ only in other characters give the same label and collide.
C3_Distinct ==
    mg.stage = "merged" =>
        /\ AlnumOnly(LastSegment(mg.dirA)) # AlnumOnly(LastSegment(mg.dirB))
              => mg.outA[1].s # mg.outB[1].s
        /\ AlnumOnly(LastSegment(mg.dirA)) = AlnumOnly(LastSegment(mg.dirB))
              /\ strip(mg.rawA[1].s) = strip(mg.rawB[1].s)
              => mg.outA[1].s = mg.outB[1].s

\* C3 witness: cta and metra both hold identifier 1 and the merge keeps cta:1 and
\* metra:1 apart
C3_Witness ==
    /\ mg.stage = "merged"
    /\ mg.rawA[1].s = <<"1">> /\ mg.rawB[1].s = <<"1">>
    /\ mg.outA[1].s = <<"c","t","a",":","1">>
    /\ mg.outB[1].s = <<"m","e","t","r","a",":","1">>

-----------------------------------------------------------------------------
(* The table files of a dataset                                            *)

MaxRows == 2

\* a line whose bytes are not UTF-8: reading it raises UnicodeDecodeError
Undecodable == [k |-> "bytes", s |-> <<>>, n |-> 0, d |-> 1]

RowDigits == <<"1", "2", "3", "4", "5">>

\* the text a well-formed row number j holds in a column
GoodField(col, j) ==
    IF Len(col) >= 2 /\ col[Len(col)] = "id" THEN <<RowDigits[j]>>
    ELSE IF Len(col) = 2 /\ col[2] = "time" THEN <<"0","8",":","0","5",":","0","0">>
    ELSE IF col[Len(col)] = "date" THEN <<"2","0","1","7","0","1","0", RowDigits[j]>>
    ELSE IF col = <<"stop","lat">> THEN <<"4","0",".","0">>
    ELSE IF col = <<"stop","lon">> THEN <<"-","8","7",".","5">>
    ELSE <<"1">>

GoodRow(columns, j) == [i \in 1..Len(columns) |-> Str(GoodField(columns[i], j))]

\* the text a validator of the table rejects in a column, if the column has one
BadField(col) ==
    IF Len(col) = 2 /\ col[2] = "time" THEN <<"8",":","5">>
    ELSE IF col[Len(col)] = "date" THEN <<"2","0","1","7","-","0","1","-","0","1">>
    ELSE IF col = <<"stop","lat">> THEN <<"9","5",".","0">>
    ELSE <<>>

\* the rows that end an import, as row number j of a file with the header
FailingRows(columns, j) ==
    LET good == GoodRow(columns, j)
        validated == {i \in 1..Len(columns) : BadField(columns[i]) # <<>>}
    IN  {SubSeq(good, 1, Len(good) - 1), Append(good, Str(<<"z">>)), <<Undecodable>>}
        \cup (IF validated = {} THEN {}
              ELSE LET i == CHOOSE v \in validated : \A w \in validated : v <= w
                   IN  {[good EXCEPT ![i] = Str(BadField(columns[i]))]})

RequiredHeader(tablename) == BaseHeader(tablename, {})

GoodHeaders(tablename) ==
    {RequiredHeader(tablename), Append(RequiredHeader(tablename), <<"wheelchair","boarding">>)}

\* headers that lack the first required column, and the first two
LackingHeaders(tablename) ==
    {Append(Tail(RequiredHeader(tablename)), <<"wheelchair","boarding">>),
     Append(Tail(Tail(RequiredHeader(tablename))), <<"wheelchair","boarding">>)}

GoodRows(columns, k) == [j \in 1..k |-> GoodRow(columns, j)]

File(columns, rows) == [columns |-> columns, rows |-> rows]

\* the contents a table file may have: well-formed rows, possibly after a blank
\* line; well-formed rows and then a row that ends the import (the rows after it
\* are never read); a header that lacks required columns
Files(tablename) ==
    {File(h, GoodRows(h, k)) : h \in GoodHeaders(tablename), k \in 1..MaxRows}
    \cup {File(h, <<<<>>>> \o GoodRows(h, k)) : h \in GoodHeaders(tablename), k \in 1..MaxRows}
    \cup UNION {{File(h, Append(GoodRows(h, k), r)) : r \in FailingRows(h, k + 1)} :
                    h \in GoodHeaders(tablename), k \in 0..(MaxRows - 1)}
    \cup {File(h, GoodRows(h, 1)) : h \in LackingHeaders(tablename)}

-----------------------------------------------------------------------------
(* handle_file                                                             *)

\* the validator handle_file chains for the table, applied to one row
validate_row(tablename, columns, row) ==
    IF tablename \in {"stop_times", "frequencies"}
    THEN convert_time_columns(row, columns, time_columns_of(tablename))
    ELSE IF tablename \in {"calendar", "calendar_dates"}
    THEN check_date_cols(row, columns, tablename)
    ELSE IF tablename = "stops" THEN check_latlon_cols(row, columns)
    ELSE Ok(row)

\* columns_filter(row) on what the labeller returned, unless it raised
after_labels(tablename, columns, l) ==
    IF l.exc # "none" THEN l ELSE drop_fields(tablename, columns, l.row)

\* labeller(row) on what the validator returned, unless it raised
after_validate(tablename, columns, service_label, v) ==
    IF v.exc # "none" THEN v
    ELSE after_labels(tablename, columns, add_labels(service_label, columns, v.row))

\* one row pulled through the chain of generators: validator, labeller, filter
row_pipeline(tablename, columns, service_label, r) ==
    after_validate(tablename, columns, service_label,
                   validate_row(tablename, columns, reader_strip(r)))

Ran(exc, msg, inserted, pulled) ==
    [exc |-> exc, msg |-> msg, inserted |-> inserted, pulled |-> pulled]

\* cur.executemany over the rows: each row is pulled, checked and inserted in
\* turn; the first exception ends the call with the earlier rows inserted and
\* nothing committed
RECURSIVE executemany(_, _, _, _, _, _)
RECURSIVE insert_row(_, _, _, _, _, _, _)
executemany(tablename, columns, service_label, rows, i, acc) ==
    IF i > Len(rows) THEN Ran("none", NoMsg, acc, i - 1)
    ELSE IF rows[i] = <<>>
    THEN executemany(tablename, columns, service_label, rows, i + 1, acc)
    ELSE IF rows[i][1].k = "bytes" THEN Ran("UnicodeDecodeError", NoMsg, acc, i)
    ELSE insert_row(tablename, columns, service_label, rows, i, acc,
                    row_pipeline(tablename, columns, service_label, rows[i]))

\* the INSERT of the row the pipeline gave, or the exception it raised
insert_row(tablename, columns, service_label, rows, i, acc, res) ==
    IF res.exc # "none" THEN Ran(res.exc, res.msg, acc, i)
    ELSE executemany(tablename, columns, service_label, rows, i + 1, Append(acc, res.row))

Handled(exc, msg, inserted, pulled, commit, columns) ==
    [exc |-> exc, msg |-> msg, inserted |-> inserted, pulled |-> pulled,
     commit |-> commit, columns |-> columns]

\* handle_file after the header passed check_for_required_fields: the rows are
\* inserted and, when none raised, committed
load_rows(tablename, columns, run) ==
    Handled(run.exc, run.msg, run.inserted, run.pulled, run.exc = "none",
            drop_fields(tablename, columns, columns).row)

\* handle_file after check_for_required_fields returned or raised
after_required(tablename, service_label, file, req) ==
    IF req.exc # "none" THEN Handled(req.exc, req.msg, <<>>, 0, FALSE, <<>>)
    ELSE load_rows(tablename, file.columns,
                   executemany(tablename, file.columns, service_label, file.rows, 1, <<>>))

\* handle_file(fname, service_label) on a file: the exception it ends with, the
\* message it gave to AddError, the rows it inserted, the number of data lines it
\* pulled from the reader, and whether it reached db.commit()
handle_file(tablename, service_label, file) ==
    after_required(tablename, service_label, file,
                   check_for_required_fields(tablename, file.columns))

\* the table files a dataset may hold, by table
FilesOf == [tablename \in Tables |-> Files(tablename)]

-----------------------------------------------------------------------------
(* Spec: one dataset loaded into a fresh store                             *)

\* the dataset directory of the run
LoaderDirs == { << <<"g">>, <<"c","t","a">> >> }

\* db.commit(): the rows of the open transaction become visible
commit_all(com, pen) == [t \in Tables |-> com[t] \o pen[t]]

NoRows == [t \in Tables |-> <<>>]

\* the files of csv_fnames that exist, in csv_fnames' order
csvs_withPaths(exists) == SelectSeq(csv_fnames, LAMBDA f : f \in exists)

\* missing_files that keeps the first missing file only
missing_files_first_only(exists) ==
    LET all == SelectSeq(csv_fnames,
                         LAMBDA f : f \notin exists
                                    /\ f \notin {"calendar.txt", "calendar_dates.txt",
                                                 "frequencies.txt"})
                   \o (IF "calendar.txt" \in exists \/ "calendar_dates.txt" \in exists
                       THEN <<>> ELSE <<"calendar.txt or calendar_dates.txt">>)
    IN  IF all = <<>> THEN <<>> ELSE <<Head(all)>>

\* missing_files as handle_agency accumulates it
missing_files(exists) ==
    SelectSeq(csv_fnames,
              LAMBDA f : f \notin exists
                         /\ f \notin {"calendar.txt", "calendar_dates.txt", "frequencies.txt"})
    \o (IF "calendar.txt" \in exists \/ "calendar_dates.txt" \in exists
        THEN <<>> ELSE <<"calendar.txt or calendar_dates.txt">>)

Init ==
    /\ committed = NoRows
    /\ pending = NoRows
    /\ pc = "connected"
    /\ label = <<>>
    /\ csvs = <<>>
    /\ present = {}
    /\ opened = <<>>
    /\ errors = <<>>
    /\ raised = "none"
    /\ lastfile = Idle
    /\ rw = Idle /\ mg = Idle /\ chk = Idle /\ tm = Idle

\* create_table for every table of sql_schema: dropped, created, committed
create_tables ==
    /\ pc = "connected"
    /\ committed' = NoRows
    /\ pending' = NoRows
    /\ pc' = "ready"
    /\ UNCHANGED <<label, csvs, present, opened, errors, raised, lastfile, rw, mg, chk, tm>>

\* handle_agency up to its loop over the files: the label, the files that
\* exist, and the abort when required files are missing
handle_agency_start ==
    /\ pc = "ready"
    /\ \E gtfs_dir \in LoaderDirs, exists \in SUBSET {csv_fnames[i] : i \in 1..Len(csv_fnames)} :
          /\ label' = dataset_label(gtfs_dir)
          /\ present' = exists
          /\ IF missing_files(exists) # <<>>
             THEN /\ errors' = Append(errors, [kind |-> "missing_files",
                                               items |-> missing_files(exists)])
                  /\ raised' = "CustomError"
                  /\ pc' = "aborted"
                  /\ csvs' = <<>>
             ELSE /\ csvs' = csvs_withPaths(exists)
                  /\ pc' = "files"
                  /\ UNCHANGED <<errors, raised>>
    /\ UNCHANGED <<committed, pending, opened, lastfile, rw, mg, chk, tm>>

\* the rows handle_file inserted, as the table stores them
stored_rows(res) ==
    [i \in 1..Len(res.inserted) |-> [columns |-> res.columns, values |-> res.inserted[i]]]

\* handle_agency once handle_file has returned or raised on the file: the loop
\* goes on after a commit; an exception leaves handle_agency, a
\* UnicodeDecodeError as a message and CustomError
after_handle_file(fname, tablename, file, res, pen) ==
    /\ opened' = Append(opened, fname)
    /\ lastfile' = [fname |-> fname, tablename |-> tablename, file |-> file, res |-> res]
    /\ IF res.commit
       THEN /\ committed' = commit_all(committed, pen)
            /\ pending' = NoRows
            /\ csvs' = Tail(csvs)
            /\ pc' = IF Tail(csvs) = <<>> THEN "loaded" ELSE "files"
            /\ UNCHANGED <<errors, raised>>
       ELSE /\ pending' = pen
            /\ csvs' = <<>>
            /\ pc' = "aborted"
            /\ UNCHANGED committed
            /\ IF res.exc = "UnicodeDecodeError"
               THEN /\ errors' = Append(errors, [kind |-> "unicode", items |-> <<>>])
                    /\ raised' = "CustomError"
               ELSE /\ errors' = IF res.exc = "CustomError"
                                 THEN Append(errors, res.msg) ELSE errors
                    /\ raised' = res.exc

with_result(fname, tablename, file, res) ==
    after_handle_file(fname, tablename, file, res,
                      [pending EXCEPT ![tablename] = @ \o stored_rows(res)])

\* one turn of handle_agency's loop: handle_file on the next file, whose contents
\* are read now
handle_agency_file ==
    /\ pc = "files"
    /\ \E file \in FilesOf[tablename_of(Head(csvs))] :
          with_result(Head(csvs), tablename_of(Head(csvs)), file,
                      handle_file(tablename_of(Head(csvs)), label, file))
    /\ UNCHANGED <<label, present, rw, mg, chk, tm>>

\* create_indices: the indices are created and the transaction committed
create_indices ==
    /\ pc \in {"loaded", "aborted"}
    /\ committed' = commit_all(committed, pending)
    /\ pending' = NoRows
    /\ pc' = "indexed"
    /\ UNCHANGED <<label, csvs, present, opened, errors, raised, lastfile, rw, mg, chk, tm>>

\* metadata: the metadata table is written and the transaction committed
metadata ==
    /\ pc = "indexed"
    /\ committed' = commit_all(committed, pending)
    /\ pending' = NoRows
    /\ pc' = "finished"
    /\ UNCHANGED <<label, csvs, present, opened, errors, raised, lastfile, rw, mg, chk, tm>>

Next ==
    \/ create_tables
    \/ handle_agency_start
    \/ handle_agency_file
    \/ create_indices
    \/ metadata

Spec == Init /\ [][Next]_vars

\* C1: whenever handle_agency has aborted, the store holds no row of the dataset
\* in any table. (Stated of the committed rows only; the code leaves the tables
\* loaded before the failing file committed.)
C1_FailedDatasetUnimported ==
    raised # "none" => \A t \in Tables : committed[t] = <<>>

RequiredFiles == {"stops.txt", "stop_times.txt", "trips.txt", "routes.txt"}

CalendarFiles == {"calendar.txt", "calendar_dates.txt"}

WrongWidthLines ==
    {i \in 1..Len(lastfile.file.rows) :
        /\ lastfile.file.rows[i] # <<>>
        /\ lastfile.file.rows[i][1].k # "bytes"
        /\ Len(lastfile.file.rows[i]) # Len(lastfile.file.columns)}

\* the required columns of the last file's table that its header lacks
LackingRequired ==
    {sql_schema[lastfile.tablename][j].name :
        j \in {h \in 1..Len(sql_schema[lastfile.tablename]) :
                  /\ sql_schema[lastfile.tablename][h].required = "True"
                  /\ \A i \in 1..Len(lastfile.file.columns) :
                        lastfile.file.columns[i] # sql_schema[lastfile.tablename][h].name}}

\* C8: a data row whose number of fields differs from the header's, shorter or
\* longer, in any table, ends the import with a message and CustomError, no other
\* exception, and the row is not inserted.
C8_WrongWidthAborts ==
    opened # <<>> /\ LackingRequired = {} /\ WrongWidthLines # {} =>
        /\ lastfile.res.exc = "CustomError"
        /\ raised = "CustomError"
        /\ errors # <<>>
        /\ \A i \in WrongWidthLines : Len(lastfile.res.inserted) < i

\* C9: a header that lacks required columns ends the import before any data row
\* is pulled or inserted, with a message that names every missing required
\* column.
C9_AllMissingNamed ==
    opened # <<>> /\ LackingRequired # {} =>
        /\ raised = "CustomError"
        /\ lastfile.res.pulled = 0
        /\ lastfile.res.inserted = <<>>
        /\ errors # <<>>
        /\ errors[Len(errors)].kind = "missing_field"
        /\ {errors[Len(errors)].items[i] : i \in 1..Len(errors[Len(errors)].items)}
              = LackingRequired

\* the data lines of a table file: the csv reader passes a blank line on as an
\* empty row, which stores nothing
DataLines(file) == SelectSeq(file.rows, LAMBDA r : r # <<>>)

\* C12: the load of a table file is atomic: at every point of a run, after a
\* failure on a later row of the file and after any later commit on the store
\* handle too, the committed contents of the file's table hold all the rows of
\* the file or none of them. (Stated of the file handle_file was called on last,
\* the only one that can have failed; create_indices and metadata commit what
\* the failed executemany left in the open transaction.)
C12_AtomicLoad ==
    opened # <<>> =>
        Len(committed[lastfile.tablename]) \in {0, Len(DataLines(lastfile.file))}

\* the same up to the first commit that follows the failure: what a failed
\* executemany stored stays in the open transaction
C12_PartOnlyPending ==
    opened # <<>> /\ pc \in {"files", "loaded", "aborted"} =>
        Len(committed[lastfile.tablename]) \in {0, Len(DataLines(lastfile.file))}

-----------------------------------------------------------------------------
(* SpecCheck: check_nonoverlapping_dateranges over the calendar table      *)

MaxCalRows == 4

\* the cap of the scan
MaxPairs == 10

CharOrder == <<" ", "0", "1", "2", "3", "4", "5", "6", "7", "8", "9">>

ord(c) == CHOOSE i \in 1..Len(CharOrder) : CharOrder[i] = c

\* a > b on Python strings with "greater or equal" in place of "greater"
RECURSIVE str_greater_or_equal(_, _)
str_greater_or_equal(a, b) ==
    IF b = <<>> THEN TRUE
    ELSE IF a = <<>> THEN FALSE
    ELSE IF Head(a) # Head(b) THEN ord(Head(a)) > ord(Head(b))
    ELSE str_greater_or_equal(Tail(a), Tail(b))

\* a > b on Python strings: by the first character that differs, a proper
\* prefix being the smaller
RECURSIVE str_greater(_, _)
str_greater(a, b) ==
    IF a = <<>> THEN FALSE
    ELSE IF b = <<>> THEN TRUE
    ELSE IF Head(a) # Head(b) THEN ord(Head(a)) > ord(Head(b))
    ELSE str_greater(Tail(a), Tail(b))

Jan1 == <<"2","0","1","7","0","1","0","1">>

Jun1 == <<"2","0","1","7","0","6","0","1">>

Jul1 == <<"2","0","1","7","0","7","0","1">>

Dec31 == <<"2","0","1","7","1","2","3","1">>

\* the (start_date, end_date) pairs of the calendar rows: each date has passed
\* check_date_fields, which does not compare the two, so that a row may start
\* after it ends
CalRanges ==
    {r \in {<<Jan1, Jun1>>, <<Jul1, Dec31>>, <<Dec31, Jan1>>} :
        strptime_ok(r[1]) /\ strptime_ok(r[2])}

\* the service_id values of the calendar rows, as the labeller wrote them
CalServiceIds == {"cta:A", "cta:B"}

CalRow(sid, range) == [service_id |-> sid, start_date |-> range[1], end_date |-> range[2]]

\* startdatedict / enddatedict: the dates of the last row fetched for the key
last_row(ids, sid) ==
    ids[CHOOSE i \in 1..Len(ids) :
            ids[i].service_id = sid /\ \A j \in (i + 1)..Len(ids) : ids[j].service_id # sid]

\* the body of the inner loop up to its break: the pair is appended when the
\* start date of sid is greater than the end date of eid
compare_pair(ids, i, j, nonoverlappingsids) ==
    IF str_greater(last_row(ids, ids[i].service_id).start_date,
                   last_row(ids, ids[j].service_id).end_date)
    THEN Append(nonoverlappingsids, <<ids[i].service_id, ids[j].service_id>>)
    ELSE nonoverlappingsids

\* the inner loop over eid, from position j on, with its break
RECURSIVE inner_loop(_, _, _, _)
RECURSIVE inner_break(_, _, _, _)
\* the break of the inner loop taken only above ten pairs
inner_break_above_cap(ids, i, j, nonoverlappingsids) ==
    IF Len(nonoverlappingsids) > MaxPairs THEN nonoverlappingsids
    ELSE inner_loop(ids, i, j + 1, nonoverlappingsids)

inner_loop(ids, i, j, nonoverlappingsids) ==
    IF j > Len(ids) THEN nonoverlappingsids
    ELSE inner_break(ids, i, j, compare_pair(ids, i, j, nonoverlappingsids))

inner_break(ids, i, j, nonoverlappingsids) ==
    IF Len(nonoverlappingsids) >= MaxPairs THEN nonoverlappingsids
    ELSE inner_loop(ids, i, j + 1, nonoverlappingsids)

\* the outer loop over sid, from position i on, with its break
RECURSIVE outer_loop(_, _, _)
RECURSIVE after_inner(_, _, _)
outer_loop(ids, i, nonoverlappingsids) ==
    IF i > Len(ids) THEN nonoverlappingsids
    ELSE after_inner(ids, i, inner_loop(ids, i, 1, nonoverlappingsids))

after_inner(ids, i, nonoverlappingsids) ==
    IF Len(nonoverlappingsids) >= MaxPairs THEN nonoverlappingsids
    ELSE outer_loop(ids, i + 1, nonoverlappingsids)

\* the number of passes through the body of the inner loop from position j on:
\* one for eid at j and, unless the break is taken, those for the eids after it
RECURSIVE inner_passes(_, _, _, _)
RECURSIVE passes_after_pair(_, _, _, _)
inner_passes(ids, i, j, nonoverlappingsids) ==
    IF j > Len(ids) THEN 0
    ELSE 1 + passes_after_pair(ids, i, j, compare_pair(ids, i, j, nonoverlappingsids))

passes_after_pair(ids, i, j, nonoverlappingsids) ==
    IF Len(nonoverlappingsids) >= MaxPairs THEN 0
    ELSE inner_passes(ids, i, j + 1, nonoverlappingsids)

\* the same over the whole scan from sid at position i on: the passes of the
\* inner loop for sid and, unless the outer break is taken, those for the sids
\* after it
RECURSIVE outer_passes(_, _, _)
RECURSIVE passes_after_inner(_, _, _)
outer_passes(ids, i, nonoverlappingsids) ==
    IF i > Len(ids) THEN 0
    ELSE inner_passes(ids, i, 1, nonoverlappingsids)
            + passes_after_inner(ids, i, inner_loop(ids, i, 1, nonoverlappingsids))

passes_after_inner(ids, i, nonoverlappingsids) ==
    IF Len(nonoverlappingsids) >= MaxPairs THEN 0
    ELSE outer_passes(ids, i + 1, nonoverlappingsids)

\* overlapwarning: "" as the empty text, else the warning, the note on the first
\* ten when exactly ten pairs were recorded, and the pairs
overlapwarning(nonoverlappingsids) ==
    IF nonoverlappingsids = <<>>
    THEN [text |-> "", note |-> FALSE, pairs |-> <<>>]
    ELSE [text |-> "Warning!", note |-> Len(nonoverlappingsids) = MaxPairs,
          pairs |-> nonoverlappingsids]

\* check_nonoverlapping_dateranges(): without a calendar table overlapwarning is
\* never bound and the return statement raises UnboundLocalError
check_nonoverlapping_dateranges(hasTable, ids) ==
    IF hasTable
    THEN [exc |-> "none", warning |-> overlapwarning(outer_loop(ids, 1, <<>>))]
    ELSE [exc |-> "UnboundLocalError", warning |-> overlapwarning(<<>>)]

InitCheck ==
    /\ LoaderIdle
    /\ tm = Idle /\ rw = Idle /\ mg = Idle
    /\ chk = [stage |-> "connected", hasTable |-> FALSE, calendar |-> <<>>, passes |-> 0,
              res |-> [exc |-> "none", warning |-> overlapwarning(<<>>)]]

\* create_table("calendar")
create_calendar_table ==
    /\ chk.stage = "connected"
    /\ ~chk.hasTable
    /\ chk' = [chk EXCEPT !.hasTable = TRUE, !.calendar = <<>>]
    /\ UNCHANGED <<loaderVars, tm, rw, mg>>

\* a calendar row of some dataset is inserted and committed
insert_calendar_row ==
    /\ chk.stage = "connected"
    /\ chk.hasTable
    /\ Len(chk.calendar) < MaxCalRows
    /\ \E sid \in CalServiceIds, range \in CalRanges :
          chk' = [chk EXCEPT !.calendar = Append(@, CalRow(sid, range))]
    /\ UNCHANGED <<loaderVars, tm, rw, mg>>

\* check_nonoverlapping_dateranges() is called; passes counts the comparisons
\* its scan made
check_dateranges ==
    /\ chk.stage = "connected"
    /\ chk' = [chk EXCEPT !.stage = "checked",
                          !.passes = IF chk.hasTable THEN outer_passes(chk.calendar, 1, <<>>)
                                     ELSE 0,
                          !.res = check_nonoverlapping_dateranges(chk.hasTable, chk.calendar)]
    /\ UNCHANGED <<loaderVars, tm, rw, mg>>

NextCheck == create_calendar_table \/ insert_calendar_row \/ check_dateranges

SpecCheck == InitCheck /\ [][NextCheck]_vars

\* a is greater than b as a string: at the first position where they differ a
\* has the greater character, or b ends there and a does not
GreaterAsString(a, b) ==
    \E k \in 1..Len(a) :
        /\ \A h \in 1..(k - 1) : h <= Len(b) /\ a[h] = b[h]
        /\ k > Len(b) \/ ord(a[k]) > ord(b[k])

\* the pairs of positions (s, e) of calendar rows with the start date of row s
\* greater, as a string, than the end date of row e
QualifyingRows ==
    {q \in (1..Len(chk.calendar)) \X (1..Len(chk.calendar)) :
        GreaterAsString(chk.calendar[q[1]].start_date, chk.calendar[q[2]].end_date)}

\* the same by the dates the check holds for a service_id: those of the last
\* calendar row that carries it
LastOf(sid) ==
    chk.calendar[CHOOSE i \in 1..Len(chk.calendar) :
        /\ chk.calendar[i].service_id = sid
        /\ \A j \in 1..Len(chk.calendar) : chk.calendar[j].service_id = sid => j <= i]

QualifyingIds ==
    {q \in (1..Len(chk.calendar)) \X (1..Len(chk.calendar)) :
        GreaterAsString(LastOf(chk.calendar[q[1]].service_id).start_date,
                    LastOf(chk.calendar[q[2]].service_id).end_date)}

\* whether the reported pairs are those of the position pairs Q, in scan order
ReportsExactly(Q) ==
    LET before(p, q) == p[1] < q[1] \/ (p[1] = q[1] /\ p[2] < q[2])
        rank(q) == Cardinality({p \in Q : before(p, q)}) + 1
    IN  /\ Len(chk.res.warning.pairs) = Cardinality(Q)
        /\ \A q \in Q : chk.res.warning.pairs[rank(q)]
                           = <<chk.calendar[q[1]].service_id, chk.calendar[q[2]].service_id>>

\* C6 as stated: with fewer than 10 qualifying pairs, the check reports the
\* ordered pair (s, e) of calendar rows exactly when the start date of row s is
\* greater, as a string, than the end date of row e, a row paired with itself
\* included.
C6_Original ==
    chk.stage = "checked" /\ chk.hasTable /\ Cardinality(QualifyingRows) < MaxPairs =>
        ReportsExactly(QualifyingRows)

\* C6 amended: the check keys the dates by service_id, so it compares, for the
\* service_ids of rows s and e, the start date of the last calendar row carrying
\* the one with the end date of the last calendar row carrying the other; with
\* fewer than 10 such pairs it reports exactly those, in scan order, a service
\* paired with itself included. When every service_id has one calendar row this
\* is the comparison of row s with row e: services whose ranges overlap are in no
\* reported pair, and services whose ranges are disjoint are reported.
C6_Reported ==
    chk.stage = "checked" /\ chk.hasTable /\ Cardinality(QualifyingIds) < MaxPairs =>
        /\ ReportsExactly(QualifyingIds)
        /\ (\A i, j \in 1..Len(chk.calendar) :
                i # j => chk.calendar[i].service_id # chk.calendar[j].service_id)
             => /\ ReportsExactly(QualifyingRows)
                /\ \A i, j \in 1..Len(chk.calendar) :
                      LET a == chk.calendar[i]
                          b == chk.calendar[j]
                          reported(x, y) == \E k \in 1..Len(chk.res.warning.pairs) :
                                                chk.res.warning.pairs[k] = <<x, y>>
                          disjoint == \/ GreaterAsString(a.start_date, b.end_date)
                                      \/ GreaterAsString(b.start_date, a.end_date)
                      IN  disjoint <=> \/ reported(a.service_id, b.service_id)
                                       \/ reported(b.service_id, a.service_id)

\* C6 witness: service A spans 20170101-20170601, service B 20170701-20171231,
\* and the check reported the pair (B, A) alone
C6_Witness ==
    /\ chk.stage = "checked"
    /\ chk.calendar = <<CalRow("cta:A", <<Jan1, Jun1>>), CalRow("cta:B", <<Jul1, Dec31>>)>>
    /\ chk.res.warning.pairs = << <<"cta:B", "cta:A">> >>

\* C7: the check never raises: in every state of the store, without a calendar
\* table and with an empty one too, it returns a string, the empty string when
\* no pair is found.
C7_NeverRaises ==
    chk.stage = "checked" =>
        /\ chk.res.exc = "none"
        /\ (~chk.hasTable \/ QualifyingIds = {}) => chk.res.warning.text = ""

\* the pairs of positions of calendar rows in the order of the scan: every eid
\* for the first sid, then for the second, and so on
ScanOrder ==
    [n \in 1..(Len(chk.calendar) * Len(chk.calendar)) |->
        <<((n - 1) \div Len(chk.calendar)) + 1, ((n - 1) % Len(chk.calendar)) + 1>>]

\* the place of the pair of positions q in that order
ScanPlace(q) == (q[1] - 1) * Len(chk.calendar) + q[2]

\* the qualifying pairs of positions, in the order of the scan: the start date
\* the check holds for the service_id of the first is greater, as a string, than
\* the end date it holds for the service_id of the second
QualifyingInOrder ==
    SelectSeq(ScanOrder,
              LAMBDA q : GreaterAsString(LastOf(chk.calendar[q[1]].service_id).start_date,
                                         LastOf(chk.calendar[q[2]].service_id).end_date))

\* C11: the scan never records more than 10 pairs; it makes no comparison after
\* the one that records the 10th pair, in the inner loop or in the outer one, and
\* makes every comparison when fewer than 10 pairs qualify; the recorded pairs
\* are the first 10 qualifying pairs in scan order (all of them when there are
\* fewer); and the warning has the note on the first 10 non-overlaps whenever a
\* qualifying pair was left out of the list. A pair qualifies when the start
\* date the check holds for the first service_id is greater, as a string, than
\* the end date it holds for the second.
C11_CappedScan ==
    chk.stage = "checked" /\ chk.hasTable =>
        LET qualifying == QualifyingInOrder
            n == IF Len(qualifying) < MaxPairs THEN Len(qualifying) ELSE MaxPairs
        IN  /\ Len(chk.res.warning.pairs) <= MaxPairs
            /\ Len(chk.res.warning.pairs) = n
            /\ \A k \in 1..n :
                  chk.res.warning.pairs[k] = <<chk.calendar[qualifying[k][1]].service_id,
                                               chk.calendar[qualifying[k][2]].service_id>>
            /\ chk.passes = IF n = MaxPairs THEN ScanPlace(qualifying[n])
                             ELSE Len(chk.calendar) * Len(chk.calendar)
            /\ Len(qualifying) > n => chk.res.warning.note

\* C11 witness: four calendar rows, each starting 20171231 and ending 20170101,
\* so that all 16 pairs qualify: the check recorded 10 pairs, stopped at the
\* second eid of the third sid, and put the note in the warning
C11_Witness ==
    /\ chk.stage = "checked"
    /\ Len(chk.calendar) = 4
    /\ \A i \in 1..4 : chk.calendar[i].start_date = Dec31 /\ chk.calendar[i].end_date = Jan1
    /\ Len(chk.res.warning.pairs) = MaxPairs
    /\ chk.passes = 10
    /\ chk.res.warning.note

=============================================================================
